---- MODULE Spec2Model ----
(***************************************************************************)
(* brainMRI.py: a segmentation volume and an intensity volume are turned   *)
(* into named surfaces (get_tumors and the brain block of __main__), which *)
(* are exported as a web document (create_3d_html) and as a scene graph    *)
(* (create_usdc_with_materials).                                           *)
(*                                                                         *)
(* Representation.  A volume is its voxels along one axis, a sequence of   *)
(* VolLen numbers.  A float is a fixed-point number of thousandths (One is *)
(* 1.0).  A numpy (n,3) array is a sequence of 3-tuples.  A Python dict is *)
(* its item sequence in insertion order together with its kind (dict or    *)
(* defaultdict(list)).  A Gf.Vec3f component is a single-precision number, *)
(* <<mantissa, exponent>>.  The third-party routines (zoom, marching_cubes,*)
(* threshold_otsu) are operators that compute what the routine returns on  *)
(* such a volume: zoom samples the volume at i*(n-1)/(m-1) and interpolates*)
(* between the two neighbouring voxels (the piecewise-linear interpolant   *)
(* stands for the spline: both return the voxel itself at a whole          *)
(* coordinate and a value between the neighbours elsewhere).               *)
(***************************************************************************)
EXTENDS Integers, Sequences, FiniteSets, TLC

VARIABLES pc, ret, seg_path, tumor_path, opened, seg_data, tumor_data,
          html_file, usd_stage, usd_saved, err,
          prep_mask, prep_path, prep_volume

vars == <<pc, ret, seg_path, tumor_path, opened, seg_data, tumor_data,
          html_file, usd_stage, usd_saved, err,
          prep_mask, prep_path, prep_volume>>

\* ------------------------------------------------------------ bounds
VolLen == 6
MaxIntensity == 2
MaxFaces == 2

\* ------------------------------------------------------------ constants
One == 1000
DOWNSAMPLE_FACTOR == 600
IsoLevel == 500
BrainOpacity == 200
OtsuBins == 256
MriChannel == 3
F32Bits == 23

COLOR_MAP ==
    [c \in {"pink", "red", "yellow", "lightblue"} |->
        CASE c = "pink" -> <<900, 700, 700>>
          [] c = "red" -> <<1000, 0, 0>>
          [] c = "yellow" -> <<900, 900, 500>>
          [] c = "lightblue" -> <<700, 700, 900>>]

tumor_labels ==
    <<[name |-> "Edema", color |-> "yellow", opacity |-> 300],
      [name |-> "Necrotic", color |-> "red", opacity |-> 800],
      [name |-> "Enhancing", color |-> "lightblue", opacity |-> 300]>>

SegPath == "Task01_BrainTumour\\labelsTr\\BRATS_001.nii.gz"
OtherPath == "other_seg.nii.gz"
Paths == {SegPath, OtherPath}
Unbound == "<unbound>"

\* ------------------------------------------------------------ sequences
Range(s) == {s[i] : i \in DOMAIN s}

RECURSIVE SumSeq(_)
SumSeq(s) == IF s = <<>> THEN 0 ELSE Head(s) + SumSeq(Tail(s))

RECURSIVE MinSeq(_)
MinSeq(s) ==
    IF Len(s) = 1 THEN s[1]
    ELSE LET m == MinSeq(Tail(s)) IN IF s[1] < m THEN s[1] ELSE m

RECURSIVE MaxSeq(_)
MaxSeq(s) ==
    IF Len(s) = 1 THEN s[1]
    ELSE LET m == MaxSeq(Tail(s)) IN IF s[1] > m THEN s[1] ELSE m

RECURSIVE Flatten(_)
Flatten(rows) == IF rows = <<>> THEN <<>> ELSE Head(rows) \o Flatten(Tail(rows))

Column(rows, c) == [i \in 1..Len(rows) |-> rows[i][c]]

Repeat(x, n) == [i \in 1..n |-> x]

\* ------------------------------------------------------------ dict
NewDict(kind) == [kind |-> kind, items |-> <<>>]
NoMapping == NewDict(Unbound)
Keys(d) == [i \in 1..Len(d.items) |-> d.items[i].key]
KeySet(d) == Range(Keys(d))
HasKey(d, k) == k \in KeySet(d)
IndexOf(d, k) == CHOOSE i \in 1..Len(d.items) : d.items[i].key = k
ValueOf(d, k) == d.items[IndexOf(d, k)].value

SetItem(d, k, v) ==
    IF HasKey(d, k)
    THEN [d EXCEPT !.items[IndexOf(d, k)].value = v]
    ELSE [d EXCEPT !.items = Append(@, [key |-> k, value |-> v])]

\* d[k]: a defaultdict(list) inserts and returns list() for a missing key
GetItem(d, k) ==
    IF HasKey(d, k) THEN [d |-> d, value |-> ValueOf(d, k), err |-> "none"]
    ELSE IF d.kind = "defaultdict"
    THEN [d |-> SetItem(d, k, <<>>), value |-> <<>>, err |-> "none"]
    ELSE [d |-> d, value |-> <<>>, err |-> "KeyError"]

\* ------------------------------------------------------------ numpy
\* (seg_data == label).astype(np.uint8)
LabelMask(volume, label) ==
    [i \in 1..Len(volume) |-> IF volume[i] = label THEN 1 ELSE 0]

\* mask.astype(float)
AsFloat(mask) == [i \in 1..Len(mask) |-> mask[i] * One]

\* small_volume.astype(np.uint8): the fraction is dropped, the rest wraps at 256
AsUint8(volume) ==
    [i \in 1..Len(volume) |-> ((volume[i] \div One) % 256) * One]

\* ------------------------------------------------------------ scipy.ndimage.zoom
ZoomShape(n) == (n * DOWNSAMPLE_FACTOR + (One \div 2)) \div One

Zoom(volume) ==
    LET n == Len(volume)
        m == ZoomShape(n)
    IN  [i \in 1..m |->
            IF m = 1 THEN volume[1]
            ELSE LET p == (i - 1) * (n - 1)
                     k == p \div (m - 1)
                     f == p % (m - 1)
                 IN  IF f = 0 THEN volume[k + 1]
                     ELSE (volume[k + 1] * ((m - 1) - f) + volume[k + 2] * f)
                              \div (m - 1)]

\* ------------------------------------------------------------ skimage.measure.marching_cubes
CrossingCells(volume, level) ==
    SelectSeq([c \in 1..(Len(volume) - 1) |-> c],
              LAMBDA c : (volume[c] > level) # (volume[c + 1] > level))

CrossingAt(volume, level, c) ==
    LET a == volume[c]
        b == volume[c + 1]
    IN  (c - 1) * One +
        (IF a < b THEN ((level - a) * One) \div (b - a)
                  ELSE ((a - level) * One) \div (a - b))

CellVerts(x) == << <<x, 0, 0>>, <<x, One, 0>>, <<x, 0, One>> >>

marching_cubes(volume, level) ==
    IF Len(volume) < 2 \/ level < MinSeq(volume) \/ level > MaxSeq(volume)
    THEN [err |-> "ValueError", verts |-> <<>>, faces |-> <<>>]
    ELSE LET cells == CrossingCells(volume, level)
         IN  IF cells = <<>>
             THEN [err |-> "RuntimeError", verts |-> <<>>, faces |-> <<>>]
             ELSE [err |-> "none",
                   verts |-> Flatten([k \in 1..Len(cells) |->
                                 CellVerts(CrossingAt(volume, level, cells[k]))]),
                   faces |-> [k \in 1..Len(cells) |->
                                 <<3 * (k - 1), 3 * (k - 1) + 1, 3 * (k - 1) + 2>>]]

\* ------------------------------------------------------------ skimage.filters.threshold_otsu
\* The threshold is lo + twice_idx * span / (2 * OtsuBins): the centre of histogram
\* bin idx (twice_idx = 2 * idx + 1), or lo itself for a one-valued image.
OtsuBin(v, lo, span) ==
    IF v = lo + span THEN OtsuBins - 1 ELSE ((v - lo) * OtsuBins) \div span

threshold_otsu(image) ==
    LET lo == MinSeq(image)
        span == MaxSeq(image) - lo
        idxs == DOMAIN image
        bin == [i \in idxs |-> OtsuBin(image[i], lo, span)]
        cand == Range(bin) \ {OtsuBins - 1}
        \* split after bin b: weight1 * weight2 and their means' difference (times it)
        w == [b \in cand |->
                 Cardinality({i \in idxs : bin[i] <= b})
                     * Cardinality({i \in idxs : bin[i] > b})]
        a == [b \in cand |->
                 SumSeq([i \in idxs |-> IF bin[i] <= b THEN 2 * bin[i] + 1 ELSE 0])
                     * Cardinality({i \in idxs : bin[i] > b})
                 - SumSeq([i \in idxs |-> IF bin[i] > b THEN 2 * bin[i] + 1 ELSE 0])
                     * Cardinality({i \in idxs : bin[i] <= b})]
        \* variance12[b] <= variance12[c]
        leq(b, c) == a[b] * a[b] * w[c] <= a[c] * a[c] * w[b]
        \* np.argmax: the first maximum
        best == CHOOSE b \in cand :
                    /\ \A c \in cand : leq(c, b)
                    /\ \A c \in cand : c < b => ~leq(b, c)
    IN  IF span = 0 THEN [lo |-> lo, span |-> 0, twice_idx |-> 0]
        ELSE [lo |-> lo, span |-> span, twice_idx |-> 2 * best + 1]

\* mri_data > brain_threshold
AboveThreshold(image, t) ==
    [i \in 1..Len(image) |->
        IF (image[i] - t.lo) * 2 * OtsuBins > t.twice_idx * t.span THEN 1 ELSE 0]

\* ------------------------------------------------------------ pxr.Gf.Vec3f
RECURSIVE Pow2(_)
Pow2(k) == IF k = 0 THEN 1 ELSE 2 * Pow2(k - 1)

\* n/d * 2^e with 1 <= n/d < 2
RECURSIVE F32Norm(_, _, _)
F32Norm(n, d, e) ==
    IF n >= 2 * d THEN F32Norm(n, 2 * d, e + 1)
    ELSE IF n < d THEN F32Norm(2 * n, d, e - 1)
    ELSE [n |-> n, d |-> d, e |-> e]

\* k more bits of the quotient q, remainder r
RECURSIVE F32Divide(_, _, _, _)
F32Divide(q, r, d, k) ==
    IF k = 0 THEN [q |-> q, r |-> r]
    ELSE IF 2 * r >= d THEN F32Divide(2 * q + 1, 2 * r - d, d, k - 1)
    ELSE F32Divide(2 * q, 2 * r, d, k - 1)

\* the single-precision number nearest to v thousandths (ties to even)
F32Round(v) ==
    IF v = 0 THEN <<0, 0>>
    ELSE LET x == F32Norm(v, One, 0)
             qr == F32Divide(1, x.n - x.d, x.d, F32Bits)
             up == 2 * qr.r > x.d \/ (2 * qr.r = x.d /\ qr.q % 2 = 1)
             m == IF up THEN qr.q + 1 ELSE qr.q
         IN  IF m = Pow2(F32Bits + 1) THEN <<Pow2(F32Bits), x.e + 1 - F32Bits>>
             ELSE <<m, x.e - F32Bits>>

\* every coordinate and colour component of the model lies in this range
F32Table[v \in 0..((VolLen + MaxFaces + 2) * One)] == F32Round(v)

F32(v) == F32Table[v]

GfVec3f(t) == <<F32(t[1]), F32(t[2]), F32(t[3])>>

\* ------------------------------------------------------------ exceptions
NoError == [type |-> "none", at |-> "none"]
Error(type, at) == [type |-> type, at |-> at]

\* ------------------------------------------------------------ get_tumors
\* the volume handed to marching_cubes for a label mask
TumorSurfaceVolume(mask) == Zoom(AsFloat(mask))

\* faulty variants of the guard: a label of one voxel is skipped too; a label is
\* skipped when its downsampled volume stays below the iso level
IsEmptyMaskOneVoxel(mask) == SumSeq(mask) <= 1
IsEmptyMaskNoCrossing(mask) == MaxSeq(TumorSurfaceVolume(mask)) < IsoLevel

\* np.sum(mask) == 0
IsEmptyMask(mask) == SumSeq(mask) = 0

\* the for loop over tumor_labels.items(), from label on
RECURSIVE TumorLoop(_, _, _)
TumorLoop(volume, label, td) ==
    IF label > Len(tumor_labels) THEN [err |-> NoError, tumor_data |-> td]
    ELSE LET mask == LabelMask(volume, label)
             mc == marching_cubes(TumorSurfaceVolume(mask), IsoLevel)
             t == tumor_labels[label]
         IN  IF IsEmptyMask(mask) THEN TumorLoop(volume, label + 1, td)
             ELSE IF mc.err # "none"
             THEN [err |-> Error(mc.err, "get_tumors_36"), tumor_data |-> td]
             ELSE TumorLoop(volume, label + 1,
                      SetItem(td, t.name, <<mc.verts, mc.faces, t.color, t.opacity>>))

GetTumorsBody(volume) == TumorLoop(volume, 1, NewDict("defaultdict"))

\* ------------------------------------------------------------ brain surface (__main__)
\* the volume handed to marching_cubes for the brain mask
BrainSurfaceVolume(mask) == AsUint8(Zoom(AsFloat(mask)))

BrainEntry(verts, faces) == <<verts, faces, "pink", BrainOpacity>>

\* lines 132-141 on the image file's data, a sequence of channels
BrainSurface(image) ==
    LET mri_data == image[MriChannel + 1]
        brain_threshold == threshold_otsu(mri_data)
        brain_mask == AboveThreshold(mri_data, brain_threshold)
        mc == marching_cubes(BrainSurfaceVolume(brain_mask), IsoLevel)
    IN  IF mc.err # "none"
        THEN [err |-> Error(mc.err, "main_139"), entry |-> <<>>]
        ELSE [err |-> NoError, entry |-> BrainEntry(mc.verts, mc.faces)]

\* ------------------------------------------------------------ create_3d_html
Mesh3d(vertices, faces, color, opacity, name) ==
    [x |-> Column(vertices, 1), y |-> Column(vertices, 2), z |-> Column(vertices, 3),
     i |-> Column(faces, 1), j |-> Column(faces, 2), k |-> Column(faces, 3),
     color |-> color, opacity |-> opacity, name |-> name]

\* the for loop over mesh_data.keys(), from the n-th key on
RECURSIVE HtmlLoop(_, _, _)
HtmlLoop(mesh_data, n, data) ==
    IF n > Len(mesh_data.items) THEN [err |-> NoError, data |-> data]
    ELSE LET name == mesh_data.items[n].key
             v == mesh_data.items[n].value
         IN  IF name = "brain" THEN HtmlLoop(mesh_data, n + 1, data)
             ELSE IF Len(v) # 4
             THEN [err |-> Error("ValueError", "create_3d_html_62"), data |-> data]
             ELSE HtmlLoop(mesh_data, n + 1,
                      Append(data, Mesh3d(v[1], v[2], v[3], v[4], name)))

\* faulty variant: the layers in the mapping's own order, brain not moved to the front
Create3dHtmlInOrder(mesh_data) ==
    [mesh_data |-> mesh_data,
     data |-> [n \in 1..Len(mesh_data.items) |->
                  LET v == mesh_data.items[n].value
                  IN  Mesh3d(v[1], v[2], v[3], v[4], mesh_data.items[n].key)],
     err |-> IF HasKey(mesh_data, "brain") THEN NoError
             ELSE Error("KeyError", "create_3d_html_47")]

\* lines 44-76: the mapping as the call leaves it, the layers of the figure
Create3dHtmlFigure(mesh_data) ==
    LET g == GetItem(mesh_data, "brain")
        v == g.value
    IN  IF g.err # "none"
        THEN [mesh_data |-> g.d, data |-> <<>>,
              err |-> Error(g.err, "create_3d_html_47")]
        ELSE IF Len(v) # 4
        THEN [mesh_data |-> g.d, data |-> <<>>,
              err |-> Error("ValueError", "create_3d_html_47")]
        ELSE LET r == HtmlLoop(g.d, 1, <<Mesh3d(v[1], v[2], v[3], v[4], "brain")>>)
             IN  [mesh_data |-> g.d, data |-> r.data, err |-> r.err]

\* ------------------------------------------------------------ create_usdc_with_materials
FaceVertexIndices(faces) == Flatten(faces)

\* faulty variant: one count per index instead of one per row
FaceVertexCountsPerIndex(faces) == Repeat(3, Len(Flatten(faces)))

FaceVertexCounts(faces) == Repeat(3, Len(faces))

\* faulty variant: the second component written twice
DiffuseColorTypo(color) ==
    GfVec3f(<<COLOR_MAP[color][1], COLOR_MAP[color][2], COLOR_MAP[color][2]>>)

DiffuseColor(color) == GfVec3f(COLOR_MAP[color])

MeshPrim(name, vertices, faces, color) ==
    [path |-> <<"World", name>>,
     points |-> [n \in 1..Len(vertices) |-> GfVec3f(vertices[n])],
     faceVertexIndices |-> FaceVertexIndices(faces),
     faceVertexCounts |-> FaceVertexCounts(faces),
     normals |-> Repeat(GfVec3f(<<0, 0, One>>), Len(vertices)),
     normalsInterpolation |-> "vertex",
     material |-> [path |-> <<"Materials", name, "Mat">>,
                   shader |-> [id |-> "UsdPreviewSurface",
                               diffuseColor |-> DiffuseColor(color)]]]

\* the for loop over mesh_data_dict.items(), from the n-th item on
RECURSIVE UsdLoop(_, _, _)
UsdLoop(items, n, prims) ==
    IF n > Len(items) THEN [err |-> NoError, prims |-> prims]
    ELSE LET name == items[n].key
             v == items[n].value
         IN  IF Len(v) # 4
             THEN [err |-> Error("ValueError", "create_usdc_85"), prims |-> prims]
             ELSE IF v[3] \notin DOMAIN COLOR_MAP
             THEN [err |-> Error("KeyError", "create_usdc_86"), prims |-> prims]
             ELSE UsdLoop(items, n + 1, Append(prims, MeshPrim(name, v[1], v[2], v[3])))

NoStage == [filename |-> Unbound, prims |-> <<>>]
UsdcPath == "brain_with_tumor.usdc"

\* ------------------------------------------------------------ inputs
Labels == 0..Len(tumor_labels)
SegVolumes == [1..VolLen -> Labels]
NoFile == <<>>

\* the intensity file: MriChannel + 1 channels, the last one any image
MriImages ==
    {[c \in 1..(MriChannel + 1) |->
         IF c = MriChannel + 1 THEN img ELSE [i \in 1..VolLen |-> 0]] :
     img \in [1..VolLen -> 0..MaxIntensity]}

\* what lines 132-141 come to, over the intensity files (and no file at all)
BrainOutcomes ==
    {BrainSurface(image) : image \in MriImages}
        \cup {[err |-> Error("FileNotFoundError", "main_132"), entry |-> <<>>]}

Names == {"brain"} \cup {tumor_labels[l].name : l \in DOMAIN tumor_labels}

StyleOf(name) ==
    IF name = "brain" THEN [color |-> "pink", opacity |-> BrainOpacity]
    ELSE LET l == CHOOSE l \in DOMAIN tumor_labels : tumor_labels[l].name = name
         IN  [color |-> tumor_labels[l].color, opacity |-> tumor_labels[l].opacity]

\* a strip of f triangles over f + 2 points
StripSurface(f) ==
    [verts |-> [n \in 1..(f + 2) |-> <<n * One, (n % 2) * One, 0>>],
     faces |-> [k \in 1..f |-> <<k - 1, k, k + 1>>]]

\* a caller's mappings: any names in any order, each entry a strip, at most one
\* colour off the table
CallerEntry(name, f, bad) ==
    <<StripSurface(f).verts, StripSurface(f).faces,
      IF name = bad THEN "green" ELSE StyleOf(name).color, StyleOf(name).opacity>>

KeyOrders(n) == {s \in [1..n -> Names] : \A a, b \in 1..n : a # b => s[a] # s[b]}

CallerMapping(kind, keys, f, bad) ==
    [kind |-> kind,
     items |-> [i \in 1..Len(keys) |->
                   [key |-> keys[i], value |-> CallerEntry(keys[i], f[i], bad)]]]

\* ------------------------------------------------------------ state
MainSites == {"main_128", "main_129", "main_132", "main_143", "main_145"}

\* where control goes when the statement at (or called from) site raises
Handler(site) == IF site \in MainSites THEN "exit" ELSE "idle"

NoHtml == [written |-> FALSE, data |-> <<>>]

Blank ==
    /\ ret = Unbound /\ seg_path = Unbound /\ tumor_path = Unbound
    /\ opened = Unbound /\ seg_data = <<>> /\ html_file = NoHtml
    /\ usd_stage = NoStage /\ usd_saved = FALSE /\ err = NoError
    /\ prep_mask = <<>> /\ prep_path = "none" /\ prep_volume = <<>>

prep_vars == <<prep_mask, prep_path, prep_volume>>
frame_vars == <<ret, tumor_path, seg_data>>
out_vars == <<html_file, usd_stage, usd_saved>>

\* ------------------------------------------------------------ get_tumors
\* line 19: seg_data = nib.load(seg_path).get_fdata()
GetTumorsLoad ==
    /\ pc = "get_tumors_19"
    /\ IF seg_path = Unbound
       THEN /\ err' = Error("NameError", "get_tumors_19")
            /\ pc' = Handler(ret)
            /\ ret' = Unbound /\ tumor_path' = Unbound
            /\ UNCHANGED <<opened, seg_data>>
       ELSE \E content \in SegVolumes \cup {NoFile} :
                /\ opened' = seg_path
                /\ IF content = NoFile
                   THEN /\ err' = Error("FileNotFoundError", "get_tumors_19")
                        /\ pc' = Handler(ret)
                        /\ ret' = Unbound /\ tumor_path' = Unbound
                        /\ UNCHANGED seg_data
                   ELSE /\ seg_data' = content
                        /\ pc' = "get_tumors_21"
                        /\ UNCHANGED <<err, ret, tumor_path>>
    /\ UNCHANGED <<seg_path, tumor_data, out_vars, prep_vars>>

\* lines 21-41: the loop and the return (or the exception of line 36)
GetTumorsLoop ==
    /\ pc = "get_tumors_21"
    /\ LET r == GetTumorsBody(seg_data)
       IN  IF r.err = NoError
           THEN /\ tumor_data' = r.tumor_data
                /\ pc' = ret
                /\ UNCHANGED err
           ELSE /\ err' = r.err
                /\ pc' = Handler(ret)
                /\ UNCHANGED tumor_data
    /\ ret' = Unbound /\ tumor_path' = Unbound /\ seg_data' = <<>>
    /\ UNCHANGED <<seg_path, opened, out_vars, prep_vars>>

\* ------------------------------------------------------------ the exporters, called at site
Create3dHtml(site, next) ==
    /\ pc = site
    /\ LET r == Create3dHtmlFigure(tumor_data)
       IN  /\ tumor_data' = r.mesh_data
           /\ IF r.err # NoError
              THEN /\ err' = r.err
                   /\ pc' = Handler(site)
                   /\ UNCHANGED html_file
              ELSE \E written \in BOOLEAN :
                       IF written
                       THEN /\ html_file' = [written |-> TRUE, data |-> r.data]
                            /\ err' = NoError
                            /\ pc' = next
                       ELSE /\ err' = Error("OSError", "create_3d_html_79")
                            /\ pc' = Handler(site)
                            /\ UNCHANGED html_file
    /\ UNCHANGED <<seg_path, opened, frame_vars, usd_stage, usd_saved, prep_vars>>

CreateUsdc(site, next, filename) ==
    /\ pc = site
    /\ LET r == UsdLoop(tumor_data.items, 1, <<>>)
       IN  /\ usd_stage' = [filename |-> filename, prims |-> r.prims]
           /\ IF r.err # NoError
              THEN /\ err' = r.err
                   /\ pc' = Handler(site)
                   /\ UNCHANGED usd_saved
              ELSE \E saved \in BOOLEAN :
                       IF saved
                       THEN /\ usd_saved' = TRUE
                            /\ err' = NoError
                            /\ pc' = next
                       ELSE /\ err' = Error("OSError", "create_usdc_124")
                            /\ pc' = Handler(site)
                            /\ UNCHANGED usd_saved
    /\ UNCHANGED <<seg_path, opened, frame_vars, tumor_data, html_file, prep_vars>>

\* ------------------------------------------------------------ __main__
MainSegPath ==
    /\ pc = "main_128"
    /\ seg_path' = SegPath
    /\ pc' = "main_129"
    /\ UNCHANGED <<opened, frame_vars, tumor_data, out_vars, err, prep_vars>>

MainCallGetTumors ==
    /\ pc = "main_129"
    /\ tumor_path' = seg_path
    /\ ret' = "main_132"
    /\ pc' = "get_tumors_19"
    /\ UNCHANGED <<seg_path, opened, seg_data, tumor_data, out_vars, err, prep_vars>>

MainBrain ==
    /\ pc = "main_132"
    /\ \E o \in BrainOutcomes :
           IF o.err # NoError
           THEN /\ err' = o.err
                /\ pc' = Handler("main_132")
                /\ UNCHANGED tumor_data
           ELSE /\ tumor_data' = SetItem(tumor_data, "brain", o.entry)
                /\ pc' = "main_143"
                /\ UNCHANGED err
    /\ UNCHANGED <<seg_path, opened, frame_vars, out_vars, prep_vars>>

MainCreate3dHtml == Create3dHtml("main_143", "main_145")

MainCreateUsdc == CreateUsdc("main_145", "exit", UsdcPath)

Init == pc = "main_128" /\ tumor_data = NoMapping /\ Blank

Next ==
    \/ MainSegPath
    \/ MainCallGetTumors
    \/ GetTumorsLoad
    \/ GetTumorsLoop
    \/ MainBrain
    \/ MainCreate3dHtml
    \/ MainCreateUsdc

Spec == Init /\ [][Next]_vars

\* ------------------------------------------------------------ the module imported
\* a caller binds the module's global seg_path
LibSetSegPath(p) ==
    /\ pc = "idle" /\ seg_path = Unbound /\ tumor_data = NoMapping
    /\ seg_path' = p
    /\ UNCHANGED <<pc, opened, frame_vars, tumor_data, out_vars, err, prep_vars>>

\* tumor_data = get_tumors(p), the caller's one successful call
LibCallGetTumors(p) ==
    /\ pc = "idle" /\ tumor_data = NoMapping
    /\ tumor_path' = p
    /\ ret' = "idle"
    /\ pc' = "get_tumors_19"
    /\ err' = NoError
    /\ UNCHANGED <<seg_path, opened, seg_data, tumor_data, out_vars, prep_vars>>

LibCreate3dHtml ==
    /\ tumor_data # NoMapping
    /\ Create3dHtml("idle", "idle")

\* one scene per session: the stage of UsdcPath stays open in the process
LibCreateUsdc ==
    /\ tumor_data # NoMapping /\ usd_stage = NoStage
    /\ CreateUsdc("idle", "idle", UsdcPath)

CallInit == pc = "idle" /\ tumor_data = NoMapping /\ Blank

CallNext ==
    \/ \E p \in Paths : LibSetSegPath(p)
    \/ \E p \in Paths : LibCallGetTumors(p)
    \/ GetTumorsLoad
    \/ GetTumorsLoop
    \/ LibCreate3dHtml
    \/ LibCreateUsdc

CallSpec == CallInit /\ [][CallNext]_vars

\* the exporters on a mapping of the caller's own, a plain dict
ExportInit ==
    /\ pc = "idle" /\ Blank
    /\ \E n \in 0..Cardinality(Names), bad \in Names \cup {Unbound} :
           \E keys \in KeyOrders(n), f \in [1..n -> 1..MaxFaces] :
               tumor_data = CallerMapping("dict", keys, f, bad)

ExportNext ==
    \/ LibCreate3dHtml
    \/ LibCreateUsdc

ExportSpec == ExportInit /\ [][ExportNext]_vars

\* ------------------------------------------------------------ the two surface paths on one mask
PrepTumorPath ==
    /\ prep_path = "none"
    /\ prep_path' = "tumor"
    /\ prep_volume' = TumorSurfaceVolume(prep_mask)
    /\ UNCHANGED <<pc, seg_path, opened, frame_vars, tumor_data, out_vars, err, prep_mask>>

PrepBrainPath ==
    /\ prep_path = "none"
    /\ prep_path' = "brain"
    /\ prep_volume' = BrainSurfaceVolume(prep_mask)
    /\ UNCHANGED <<pc, seg_path, opened, frame_vars, tumor_data, out_vars, err, prep_mask>>

PrepInit ==
    /\ pc = "prep" /\ tumor_data = NoMapping
    /\ ret = Unbound /\ seg_path = Unbound /\ tumor_path = Unbound
    /\ opened = Unbound /\ seg_data = <<>> /\ html_file = NoHtml
    /\ usd_stage = NoStage /\ usd_saved = FALSE /\ err = NoError
    /\ prep_mask \in [1..VolLen -> {0, 1}] /\ prep_path = "none" /\ prep_volume = <<>>

PrepNext ==
    \/ PrepTumorPath
    \/ PrepBrainPath

PrepSpec == PrepInit /\ [][PrepNext]_vars

\* ============================================================ properties
NonEmptyLabelNames(volume) ==
    {tumor_labels[l].name : l \in {l \in DOMAIN tumor_labels : l \in Range(volume)}}

\* C1: get_tumors returns a mapping whose keys are exactly the names of the labels
\* that occur in the volume (an absent label is skipped without an error), the
\* brain stage adds exactly "brain", and the web exporter hands the same keys on:
\* the exporters get {"brain"} and the names of the labels present.
C1_KeysAreBrainAndLabelsPresent ==
    [][/\ (pc = "get_tumors_21" /\ pc' = "main_132") =>
              /\ KeySet(tumor_data') = NonEmptyLabelNames(seg_data)
              /\ err' = NoError
       /\ (pc = "main_132" /\ pc' = "main_143") =>
              /\ "brain" \notin KeySet(tumor_data)
              /\ KeySet(tumor_data') = KeySet(tumor_data) \cup {"brain"}
       /\ (pc = "main_143" /\ pc' = "main_145") =>
              KeySet(tumor_data') = KeySet(tumor_data)]_vars

\* label 2 absent, labels 1 and 3 present, extraction complete
C1_Witness ==
    /\ pc = "main_143"
    /\ KeySet(tumor_data) = {"brain", "Edema", "Enhancing"}

KeysButBrain(d) == SelectSeq(Keys(d), LAMBDA k : k # "brain")

\* C2: the document written for a mapping with a "brain" entry has one layer per
\* entry: "brain" first and once, then the other entries in the mapping's order,
\* each layer with its own entry's name, colour and opacity.
C2_BrainLayerFirstOneLayerPerEntry ==
    html_file.written =>
        LET data == html_file.data
        IN  /\ HasKey(tumor_data, "brain")
            /\ Len(data) = Len(tumor_data.items)
            /\ [n \in 1..Len(data) |-> data[n].name]
                   = <<"brain">> \o KeysButBrain(tumor_data)
            /\ \A n \in 1..Len(data) :
                   /\ data[n].color = ValueOf(tumor_data, data[n].name)[3]
                   /\ data[n].opacity = ValueOf(tumor_data, data[n].name)[4]

\* a document written for a mapping of four entries whose last key is "brain"
C2_Witness ==
    /\ html_file.written
    /\ Len(tumor_data.items) = 4
    /\ tumor_data.items[4].key = "brain"

\* C3: create_3d_html on a mapping without "brain" raises a key-lookup error at the
\* "brain" lookup and writes no document.
C3_KeyErrorWhenBrainMissing ==
    [][(LibCreate3dHtml /\ ~HasKey(tumor_data, "brain")) =>
           /\ err' = Error("KeyError", "create_3d_html_47")
           /\ html_file' = html_file]_vars

\* C4: neither exporter changes the mapping it is given.
C4_ExportersLeaveMappingAlone ==
    [][(LibCreate3dHtml \/ LibCreateUsdc) => tumor_data' = tumor_data]_vars

\* C5: every mesh prim has one face-vertex count per row of its entry's triangle
\* array, each count is 3, and its face-vertex indices are the rows' indices in row
\* order, three per row.
C5_ThreePerFaceRowOrder ==
    \A p \in 1..Len(usd_stage.prims) :
        LET prim == usd_stage.prims[p]
            faces == ValueOf(tumor_data, prim.path[2])[2]
        IN  /\ Len(prim.faceVertexCounts) = Len(faces)
            /\ \A r \in 1..Len(prim.faceVertexCounts) : prim.faceVertexCounts[r] = 3
            /\ Len(prim.faceVertexIndices) = 3 * Len(faces)
            /\ \A r \in 1..Len(faces), c \in 1..3 :
                   prim.faceVertexIndices[3 * (r - 1) + c] = faces[r][c]

\* a saved stage with a mesh of at least two triangles
C5_Witness ==
    /\ usd_saved
    /\ \E p \in 1..Len(usd_stage.prims) : Len(usd_stage.prims[p].faceVertexCounts) >= 2

\* C6: in a run of the script every entry's colour name is a key of COLOR_MAP, no
\* colour lookup fails, and every prim's shader gets the Vec3f of the COLOR_MAP value
\* of its own entry's colour name.
C6_DiffuseColorFromColorMap ==
    /\ err.type # "KeyError"
    /\ \A n \in 1..Len(tumor_data.items) :
           tumor_data.items[n].value[3] \in DOMAIN COLOR_MAP
    /\ \A p \in 1..Len(usd_stage.prims) :
           LET prim == usd_stage.prims[p]
               color == ValueOf(tumor_data, prim.path[2])[3]
           IN  prim.material.shader.diffuseColor = GfVec3f(COLOR_MAP[color])

\* the scene of a run with all four entries
C6_Witness ==
    /\ usd_saved
    /\ Len(usd_stage.prims) = 4

\* C7: "brain" is the first key of the mapping the script hands to the exporters,
\* and the first mesh prim of the scene.
C7_BrainFirstKey ==
    /\ pc \in {"main_143", "main_145"} => Keys(tumor_data)[1] = "brain"
    /\ usd_stage.prims # <<>> => usd_stage.prims[1].path = <<"World", "brain">>

ExtractionSites == {"get_tumors_19", "get_tumors_36", "main_132", "main_139"}
WebSites == {"create_3d_html_47", "create_3d_html_62", "create_3d_html_79"}

\* some label is present and its downsampled volume has no level-0.5 surface
DegenerateLabel(volume) ==
    \E l \in DOMAIN tumor_labels :
        /\ l \in Range(volume)
        /\ marching_cubes(TumorSurfaceVolume(LabelMask(volume, l)), IsoLevel).err # "none"

\* C8: an exception ends the run where it is raised; the stages run in the order
\* tumours, brain, web, scene; a failed extraction leaves no document and no scene,
\* a failed web export no scene; and a label that is present but has no surface
\* after downsampling still reaches marching_cubes, whose failure ends the run.
C8_FailureIsFatal ==
    /\ [](/\ err # NoError => (pc = "exit" /\ ~ENABLED Next)
          /\ pc \in {"main_128", "main_129", "get_tumors_19", "get_tumors_21"} =>
                 (tumor_data = NoMapping /\ html_file = NoHtml /\ usd_stage = NoStage)
          /\ pc = "main_132" =>
                 (tumor_data # NoMapping /\ ~HasKey(tumor_data, "brain")
                     /\ html_file = NoHtml /\ usd_stage = NoStage)
          /\ pc = "main_143" =>
                 (HasKey(tumor_data, "brain") /\ html_file = NoHtml /\ usd_stage = NoStage)
          /\ pc = "main_145" => (html_file.written /\ usd_stage = NoStage)
          /\ usd_saved => (html_file.written /\ usd_stage # NoStage)
          /\ err.at \in ExtractionSites =>
                 (html_file = NoHtml /\ usd_stage = NoStage /\ ~usd_saved)
          /\ err.at \in WebSites => (usd_stage = NoStage /\ ~usd_saved))
    /\ [][(pc = "get_tumors_21" /\ DegenerateLabel(seg_data)) =>
              (pc' = "exit" /\ err'.at = "get_tumors_36")]_vars

\* the run ended by marching_cubes on a label mask
C8_Witness ==
    /\ pc = "exit"
    /\ err.at = "get_tumors_36"
    /\ ~html_file.written /\ ~usd_saved

\* C9: the brain path hands marching_cubes the same volume as the tumour path does
\* for the same mask.
C9_BrainPathSameVolume ==
    prep_path = "brain" => prep_volume = TumorSurfaceVolume(prep_mask)

\* C10: get_tumors loads the file at the path it is given and needs no global
\* seg_path.
C10_LoadsItsArgument ==
    /\ err.type # "NameError"
    /\ pc = "get_tumors_21" => opened = tumor_path

====
